---- MODULE Spec2Model ----
(***************************************************************************)
(* A model of the static-file web server of src/src/main.rs and of the     *)
(* response type of src/http-resources/src/lib.rs.                         *)
(*                                                                         *)
(* Strings and byte buffers are sequences of one-character strings, so     *)
(* that lengths, splitting, extensions and concatenation are computed as   *)
(* the code computes them.                                                 *)
(*                                                                         *)
(* Three specifications: Spec is the running server (accept loop, pool,    *)
(* tasks, lazy error pages, console thread); SpecResponse is a caller of   *)
(* the response type alone; SpecConfig is parse_config applied to a        *)
(* settings.cfg.                                                           *)
(***************************************************************************)
EXTENDS Integers, Sequences, FiniteSets, TLC

(***************************************************************************)
(* Bounds of the model.                                                    *)
(***************************************************************************)
\* number of connections that arrive at the listener
NumConns == 2
\* largest worker count the configuration is drawn from
MaxThreads == 2
\* number of changes other processes make to the file system
MaxFsChanges == 1

(***************************************************************************)
(* Option values and results.                                              *)
(***************************************************************************)
None == <<>>
Some(v) == <<v>>
IsSome(o) == o # <<>>
Unwrap(o) == o[1]

(***************************************************************************)
(* String literals of the source.                                          *)
(***************************************************************************)
SPACE == " "
SLASH == "/"
DOT == "."
SEPARATOR == <<"\r","\n">>
ColonSpace == <<":"," ">>

HttpProtocols_get_name(p) ==
    CASE p = "ZeroNine" -> <<"H","T","T","P","/","0",".","9">>
      [] p = "One"      -> <<"H","T","T","P","/","1",".","0">>
      [] p = "OneOne"   -> <<"H","T","T","P","/","1",".","1">>
      [] p = "Two"      -> <<"H","T","T","P","/","2",".","0">>

HttpResponseStatusCode_get_header(s) ==
    CASE s = "OK" -> <<"2","0","0"," ","O","k">>
      [] s = "NotFound" -> <<"4","0","4"," ","N","o","t"," ","F","o","u","n","d">>
      [] s = "InternalServerError" ->
           <<"5","0","0"," ","I","n","t","e","r","n","a","l"," ","S","e","r","v","e","r"," ","E","r","r","o","r">>

HttpResponseOptions_get_name(o) ==
    CASE o = "ContentType"   -> <<"C","o","n","t","e","n","t","-","T","y","p","e">>
      [] o = "ContentLength" -> <<"C","o","n","t","e","n","t","-","L","e","n","g","t","h">>

TextHtml == <<"t","e","x","t","/","h","t","m","l">>
TextCss == <<"t","e","x","t","/","c","s","s">>
ImagePng == <<"i","m","a","g","e","/","p","n","g">>
ImageXIcon == <<"i","m","a","g","e","/","x","-","i","c","o","n">>
ApplicationJavascript ==
    <<"a","p","p","l","i","c","a","t","i","o","n","/","j","a","v","a","s","c","r","i","p","t">>
ApplicationWasm == <<"a","p","p","l","i","c","a","t","i","o","n","/","w","a","s","m">>

ExtHtml == <<"h","t","m","l">>
ExtCss == <<"c","s","s">>
ExtPng == <<"p","n","g">>
ExtIco == <<"i","c","o">>
ExtJs == <<"j","s">>
ExtWasm == <<"w","a","s","m">>
DotHtml == <<".","h","t","m","l">>

Website == <<"w","e","b","s","i","t","e">>
ErrorsDir == <<"w","e","b","s","i","t","e","/","_","_","e","r","r","o","r","s","_","_">>
Path404 == ErrorsDir \o <<"/","4","0","4",".","h","t","m","l">>
Path500 == ErrorsDir \o <<"/","5","0","0",".","h","t","m","l">>

BadRequestBytes ==
    <<"H","T","T","P","/","1",".","1"," ","4","0","0"," ","B","A","D"," ","R","E","Q","U","E","S","T">>
NotFoundHead ==
    <<"H","T","T","P","/","1",".","1"," ","4","0","4"," ","N","O","T"," ","F","O","U","N","D">>
ServerErrHead ==
    <<"H","T","T","P","/","1",".","1"," ","5","0","0"," ","I","n","t","e","r","n","a","l"," ","S","e","r","v","e","r"," ","E","r","r","o","r">>
ContentLen == <<"C","o","n","t","e","n","t","-","L","e","n">>

\* "<html><body><h1>404</h1></body></html>", the page both initialisers cache
FallbackPage ==
    <<"<","h","t","m","l",">","<","b","o","d","y",">","<","h","1",">","4","0","4",
      "<","/","h","1",">","<","/","b","o","d","y",">","<","/","h","t","m","l",">">>
Doctype == <<"<","!","D","O","C","T","Y","P","E"," ","h","t","m","l",">">>
\* the bytes ERR_PAGE's initialiser writes to 404.html
Default404File == Doctype \o FallbackPage
\* the bytes SERVER_ERR_PAGE's initialiser writes to 404.html
Default500File ==
    Doctype \o
    <<"<","h","t","m","l",">","<","b","o","d","y",">","<","h","1",">","5","0","0",
      "<","/","h","1",">","<","/","b","o","d","y",">","<","/","h","t","m","l",">">>

(***************************************************************************)
(* Library functions on strings.                                           *)
(***************************************************************************)
Digits == <<"0","1","2","3","4","5","6","7","8","9">>

\* usize::to_string: the decimal rendering, no leading zeros
RECURSIVE to_string(_)
to_string(n) ==
    IF n < 10 THEN <<Digits[n + 1]>>
    ELSE to_string(n \div 10) \o <<Digits[(n % 10) + 1]>>

\* the value of a string of decimal digits
DigitChars == {Digits[i] : i \in 1..10}
DigitValue(ch) == CHOOSE d \in 0..9 : Digits[d + 1] = ch
RECURSIVE DecimalValue(_)
DecimalValue(s) ==
    IF s = <<>> THEN 0
    ELSE 10 * DecimalValue(SubSeq(s, 1, Len(s) - 1)) + DigitValue(s[Len(s)])

\* indices of s that hold the character ch
Positions(s, ch) == {i \in 1..Len(s) : s[i] = ch}
MinOf(S) == CHOOSE m \in S : \A k \in S : m <= k
MaxOf(S) == CHOOSE m \in S : \A k \in S : m >= k

\* str::split(ch): the pieces between separators, empty pieces included
RECURSIVE Split(_, _)
Split(s, ch) ==
    IF Positions(s, ch) = {} THEN <<s>>
    ELSE LET i == MinOf(Positions(s, ch))
         IN  <<SubSeq(s, 1, i - 1)>> \o Split(SubSeq(s, i + 1, Len(s)), ch)

\* a variant that takes the first piece, nth(0)
Nth1_First(pieces) == IF Len(pieces) >= 1 THEN Some(pieces[1]) ELSE None

\* Iterator::nth(1) on the pieces of a split
Nth1(pieces) == IF Len(pieces) >= 2 THEN Some(pieces[2]) ELSE None

\* Path::file_name: the last component when it is a normal one; empty
\* components (repeated or trailing slashes) and "." components are skipped
IsNormalOrParent(c) == c # <<>> /\ c # <<".">>
FileName(path) ==
    LET comps == SelectSeq(Split(path, SLASH), IsNormalOrParent)
    IN  IF comps = <<>> THEN None
        ELSE IF comps[Len(comps)] = <<".", ".">> THEN None
        ELSE Some(comps[Len(comps)])

\* Path::extension: the part of file_name after its last dot; none when
\* there is no file name, no dot, or the only dot is the first character
Extension(path) ==
    LET fname == FileName(path)
    IN  IF ~IsSome(fname) THEN None
        ELSE LET f == Unwrap(fname)
                 dots == Positions(f, DOT)
             IN  IF dots = {} THEN None
                 ELSE IF MaxOf(dots) = 1 THEN None
                 ELSE Some(SubSeq(f, MaxOf(dots) + 1, Len(f)))

(***************************************************************************)
(* The file system: a map from the paths the model knows to entries.       *)
(***************************************************************************)
Absent == [kind |-> "absent", data |-> <<>>]
Dir == [kind |-> "dir", data |-> <<>>]
RegularFile(bytes) == [kind |-> "file", data |-> bytes]

\* File::open: succeeds on anything that exists (a directory opens, too)
Exists(fs, p) == p \in DOMAIN fs /\ fs[p].kind # "absent"
\* Read::read_to_end / fs::read_to_string: succeeds on regular files only
Readable(fs, p) == p \in DOMAIN fs /\ fs[p].kind = "file"
\* File::create: needs the parent directory and a target that is no directory
Creatable(fs, p, parent) ==
    /\ p \in DOMAIN fs /\ fs[p].kind # "dir"
    /\ parent \in DOMAIN fs /\ fs[parent].kind = "dir"

(***************************************************************************)
(* HttpResponse (src/http-resources/src/lib.rs).                           *)
(***************************************************************************)
HttpResponse_new(protocol) ==
    [protocol |-> protocol, status |-> "OK", options |-> <<>>, payload |-> <<>>]

set_status(r, new_status) == [r EXCEPT !.status = new_status]

\* an insert that keeps the value a key already has
append_option_KeepFirst(r, option, value) ==
    [r EXCEPT !.options =
        [k \in (DOMAIN r.options) \cup {option} |->
            IF k \in DOMAIN r.options THEN r.options[k] ELSE value]]

\* options is a HashMap: a function from the keys set so far to their values;
\* insert adds the key or replaces its value
append_option(r, option, value) ==
    [r EXCEPT !.options =
        [k \in (DOMAIN r.options) \cup {option} |->
            IF k = option THEN value ELSE r.options[k]]]

append_payload(r, payload) == [r EXCEPT !.payload = payload]

\* the orders in which a HashMap with these keys may be iterated
IterationOrders(keys) ==
    {o \in [1..Cardinality(keys) -> keys] : \A k \in keys : \E i \in DOMAIN o : o[i] = k}

RECURSIVE OptionLines(_, _)
OptionLines(r, order) ==
    IF order = <<>> THEN <<>>
    ELSE HttpResponseOptions_get_name(Head(order)) \o ColonSpace
            \o r.options[Head(order)] \o SEPARATOR
            \o OptionLines(r, Tail(order))

\* get_header, for the order in which the map happens to be iterated
get_header(r, order) ==
    HttpProtocols_get_name(r.protocol) \o <<SPACE>>
        \o HttpResponseStatusCode_get_header(r.status) \o SEPARATOR
        \o OptionLines(r, order)
        \o SEPARATOR

(***************************************************************************)
(* handle_connection (src/src/main.rs), as a function of what the socket   *)
(* delivers, the file system and the configured home name.                 *)
(*                                                                         *)
(* A stream is the sequence of results the line iterator would yield:      *)
(* [ok |-> TRUE, line |-> l] for a line read, [ok |-> FALSE, ...] for a    *)
(* read error; the empty sequence is a stream that ends before any line.   *)
(***************************************************************************)
Line(l) == [ok |-> TRUE, line |-> l]
ReadError == [ok |-> FALSE, line |-> <<>>]

Err(e, opened) == [ok |-> FALSE, err |-> e, response |-> None, opened |-> opened]
Ok(r, opened) == [ok |-> TRUE, err |-> "", response |-> Some(r), opened |-> opened]

\* http_request.next(): the first item of the iterator; a read error is
\* mapped to the empty line, and take_while ends the iterator at an empty line
FirstLine(stream) ==
    IF stream = <<>> THEN None
    ELSE LET item == IF Head(stream).ok THEN Head(stream).line ELSE <<>>
         IN  IF item = <<>> THEN None ELSE Some(item)

\* the request target: the second piece of the first line split at spaces
RequestPath(stream) ==
    IF ~IsSome(FirstLine(stream)) THEN None
    ELSE Nth1(Split(Unwrap(FirstLine(stream)), SPACE))

\* the match on the extension: the file path and content type, or unsupported
Route(path, home_name) ==
    LET ext == Extension(path)
    IN  IF ext = Some(ExtHtml) \/ ext = None
        THEN [supported |-> TRUE,
              path |-> (IF path = <<SLASH>> THEN <<SLASH>> \o home_name ELSE path) \o DotHtml,
              content_type |-> TextHtml]
        ELSE IF ext = Some(ExtCss)
        THEN [supported |-> TRUE, path |-> path, content_type |-> TextCss]
        ELSE IF ext = Some(ExtPng)
        THEN [supported |-> TRUE, path |-> path, content_type |-> ImagePng]
        ELSE IF ext = Some(ExtIco)
        THEN [supported |-> TRUE, path |-> path, content_type |-> ImageXIcon]
        ELSE IF ext = Some(ExtJs)
        THEN [supported |-> TRUE, path |-> path, content_type |-> ApplicationJavascript]
        ELSE IF ext = Some(ExtWasm)
        THEN [supported |-> TRUE, path |-> path, content_type |-> ApplicationWasm]
        ELSE [supported |-> FALSE, path |-> path, content_type |-> <<>>]

\* a variant that counts one byte too many
ContentLengthValue_OffByOne(content) == to_string(Len(content) + 1)

\* the value given to the Content-Length option for the bytes read
ContentLengthValue(content) == to_string(Len(content))

\* the response built from a file that was read
FileResponse(content_type, content) ==
    append_payload(
        append_option(
            append_option(HttpResponse_new("OneOne"), "ContentType", content_type),
            "ContentLength", ContentLengthValue(content)),
        content)

\* a variant that reports a failed read like a failed open
handle_connection_ReadIsOpen(stream, fs, home_name) ==
    IF ~IsSome(RequestPath(stream)) THEN Err("TCPReadFailed", <<>>)
    ELSE LET route == Route(Unwrap(RequestPath(stream)), home_name)
             file == Website \o route.path
         IN  IF ~route.supported THEN Err("InternalServerErr", <<>>)
             ELSE IF ~Readable(fs, file) THEN Err("SourceNotFound", <<file>>)
             ELSE Ok(FileResponse(route.content_type, fs[file].data), <<file>>)

\* a variant that opens the file before it looks at the extension
handle_connection_OpenFirst(stream, fs, home_name) ==
    IF ~IsSome(RequestPath(stream)) THEN Err("TCPReadFailed", <<>>)
    ELSE LET route == Route(Unwrap(RequestPath(stream)), home_name)
             file == Website \o route.path
         IN  IF ~Exists(fs, file) THEN Err("SourceNotFound", <<file>>)
             ELSE IF ~route.supported THEN Err("InternalServerErr", <<file>>)
             ELSE IF ~Readable(fs, file) THEN Err("InternalServerErr", <<file>>)
             ELSE Ok(FileResponse(route.content_type, fs[file].data), <<file>>)

\* lines 127-167: the request line, the route, the file
handle_connection(stream, fs, home_name) ==
    IF ~IsSome(RequestPath(stream)) THEN Err("TCPReadFailed", <<>>)
    ELSE LET route == Route(Unwrap(RequestPath(stream)), home_name)
             file == Website \o route.path
         IN  IF ~route.supported THEN Err("InternalServerErr", <<>>)
             ELSE IF ~Exists(fs, file) THEN Err("SourceNotFound", <<file>>)
             ELSE IF ~Readable(fs, file) THEN Err("InternalServerErr", <<file>>)
             ELSE Ok(FileResponse(route.content_type, fs[file].data), <<file>>)

(***************************************************************************)
(* The lazily initialised error pages (lazy_static! in src/src/main.rs).   *)
(* A cell is uninitialised, ready with its value, or poisoned: the cell's  *)
(* Once was left poisoned by an initialiser that panicked, and every later *)
(* access panics.                                                          *)
(***************************************************************************)
Uninit == [state |-> "uninit", value |-> <<>>]
Ready(v) == [state |-> "ready", value |-> v]
Poisoned == [state |-> "poisoned", value |-> <<>>]

ErrorPageBytes(head, page) ==
    head \o SEPARATOR \o ContentLen \o ColonSpace \o to_string(Len(page))
         \o SEPARATOR \o SEPARATOR \o page

\* ERR_PAGE's initialiser: the cell and the file system it leaves
ERR_PAGE_init(fs) ==
    IF Readable(fs, Path404)
    THEN [cell |-> Ready(ErrorPageBytes(NotFoundHead, fs[Path404].data)), fs |-> fs]
    ELSE IF Creatable(fs, Path404, ErrorsDir)
    THEN [cell |-> Ready(ErrorPageBytes(NotFoundHead, FallbackPage)),
          fs |-> [fs EXCEPT ![Path404] = RegularFile(Default404File)]]
    ELSE [cell |-> Poisoned, fs |-> fs]

\* SERVER_ERR_PAGE's initialiser: it reads 500.html, and without it writes
\* 404.html and caches the 404 fallback page
SERVER_ERR_PAGE_init(fs) ==
    IF Readable(fs, Path500)
    THEN [cell |-> Ready(ErrorPageBytes(ServerErrHead, fs[Path500].data)), fs |-> fs]
    ELSE IF Creatable(fs, Path404, ErrorsDir)
    THEN [cell |-> Ready(ErrorPageBytes(ServerErrHead, FallbackPage)),
          fs |-> [fs EXCEPT ![Path404] = RegularFile(Default500File)]]
    ELSE [cell |-> Poisoned, fs |-> fs]

\* a variant without the cache: the initialiser runs at every access
LazyGet_NoCache(cell, fs, init) == init

\* dereferencing a lazy cell: the initialiser runs only on an uninitialised cell
LazyGet(cell, fs, init) ==
    IF cell.state = "uninit" THEN init ELSE [cell |-> cell, fs |-> fs]

\* get_html_err_msg: the bytes for an error kind, with the cells and the file
\* system the call leaves; panic is set when the cell it needs is poisoned
get_html_err_msg(e, errPage, serverErrPage, fs) ==
    CASE e = "TCPReadFailed" ->
           [panic |-> FALSE, bytes |-> BadRequestBytes,
            ERR_PAGE |-> errPage, SERVER_ERR_PAGE |-> serverErrPage, fs |-> fs]
      [] e = "SourceNotFound" ->
           LET got == LazyGet(errPage, fs, ERR_PAGE_init(fs))
           IN  [panic |-> got.cell.state = "poisoned", bytes |-> got.cell.value,
                ERR_PAGE |-> got.cell, SERVER_ERR_PAGE |-> serverErrPage, fs |-> got.fs]
      [] e = "InternalServerErr" ->
           LET got == LazyGet(serverErrPage, fs, SERVER_ERR_PAGE_init(fs))
           IN  [panic |-> got.cell.state = "poisoned", bytes |-> got.cell.value,
                ERR_PAGE |-> errPage, SERVER_ERR_PAGE |-> got.cell, fs |-> got.fs]

(***************************************************************************)
(* Sockets.  A write call on a socket takes all the bytes offered, takes   *)
(* only some of them, or fails; the worker ignores which.                  *)
(***************************************************************************)
ShortCounts(len) == {n \in {1, len - 1} : 0 < n /\ n < len}
Sinks(len) ==
    {[kind |-> "full", n |-> len], [kind |-> "error", n |-> 0]}
        \cup {[kind |-> "short", n |-> k] : k \in ShortCounts(len)}

\* Write::write: the bytes the socket took from buf
write(buf, sink) == SubSeq(buf, 1, sink.n)
\* Write::write_all: write is repeated until all is taken, unless it fails
write_all(buf, sink) == IF sink.kind = "error" THEN <<>> ELSE buf

\* HttpResponse::send: what reaches the peer
send(r, order, sink) == write_all(get_header(r, order), sink) \o write(r.payload, sink)

(***************************************************************************)
(* Inputs of the model.                                                    *)
(***************************************************************************)
GET == <<"G","E","T">>
Home == <<"h","o","m","e">>
AltHome == <<"i","d","x">>
HomeNames == {Home, AltHome}

\* request targets
TargetRoot == <<"/">>
TargetHomeHtml(home_name) == <<"/">> \o home_name \o DotHtml
TargetAsset(ext) == <<"/","a",".">> \o ext
TargetExe == <<"/","a",".","e","x","e">>
TargetMissing == <<"/","b",".","c","s","s">>
TargetNoExt == <<"/","a">>
TargetEmptyExt == <<"/","a",".">>
TargetDotFile == <<"/",".","c","s","s">>
TargetTrailingSlash == <<"/","a",".","c","s","s","/">>
TargetDirectory == <<"/","d",".","c","s","s">>
TargetEmpty == <<>>
SupportedExts == {ExtHtml, ExtCss, ExtPng, ExtIco, ExtJs, ExtWasm}
Targets ==
    {TargetRoot, TargetExe, TargetMissing, TargetNoExt, TargetEmptyExt, TargetDotFile,
     TargetTrailingSlash, TargetDirectory, TargetEmpty}
        \cup {TargetHomeHtml(h) : h \in HomeNames}
        \cup {TargetAsset(ext) : ext \in SupportedExts}

RequestLine(target) == GET \o <<SPACE>> \o target \o <<SPACE>> \o HttpProtocols_get_name("OneOne")
Request(target) == <<Line(RequestLine(target)), Line(<<>>)>>

\* what a client may deliver: nothing, a read error, an empty line, a line
\* with one token, a request line followed by the empty line, or a request
\* line followed by a read error
Streams ==
    {<<>>, <<ReadError>>, <<Line(<<>>)>>, <<Line(GET)>>,
     <<Line(RequestLine(TargetAsset(ExtCss))), ReadError>>}
        \cup {Request(t) : t \in Targets}

\* the streams of the runs with several connections
CoreStreams ==
    {<<>>, Request(TargetRoot), Request(TargetHomeHtml(Home)), Request(TargetAsset(ExtCss)),
     Request(TargetExe), Request(TargetMissing)}

\* contents of the files of the document root
HomePage == <<"h","i">>
AltHomePage == <<"i","d","x","!">>
HomeHtmlHtmlPage == <<"h","i","2">>
AssetContent(ext) ==
    CASE ext = ExtHtml -> <<"a">>
      [] ext = ExtCss -> <<"b","o","d","y","{","c","o","l","o","r",":","r","e","d","}">>
      [] ext = ExtPng -> <<"P","N","G","!">>
      [] ext = ExtIco -> <<"i","c","o","n","s">>
      [] ext = ExtJs -> <<>>
      [] ext = ExtWasm -> <<"w","a","s","m","0","1">>
ExeContent == <<"M","Z">>
Custom404Page == <<"n","o","p","e">>
Custom500Page == <<"o","o","p","s","!","!","!","!","!","!","!">>
Edited404Page == <<"g","o","n","e","!">>

DocPath(target) == Website \o target
PathHome(home_name) == DocPath(TargetHomeHtml(home_name))
PathHomeHtmlHtml(home_name) == DocPath(TargetHomeHtml(home_name)) \o DotHtml
PathExe == DocPath(TargetExe)
PathDirectory == DocPath(TargetDirectory)
\* the file a request for /a.html is resolved to
PathAssetHtmlHtml == DocPath(TargetAsset(ExtHtml)) \o DotHtml
AssetPaths == {DocPath(TargetAsset(ext)) : ext \in SupportedExts}

FsPaths ==
    {Website, ErrorsDir, Path404, Path500, PathExe, PathDirectory, PathAssetHtmlHtml}
        \cup {PathHome(h) : h \in HomeNames}
        \cup {PathHomeHtmlHtml(h) : h \in HomeNames}
        \cup AssetPaths

EmptyDisk == [p \in FsPaths |-> Absent]

\* a document root before the server starts: the home pages, the files the
\* home page requests with an html extension are resolved to, the file with
\* an unsupported extension and the assets are there or not
DocumentRoot(hasHome, hasHomeHtmlHtml, hasExe, hasAssets) ==
    [p \in FsPaths |->
        IF p = Website \/ p = PathDirectory THEN Dir
        ELSE IF p = PathHome(Home) /\ hasHome THEN RegularFile(HomePage)
        ELSE IF p = PathHome(AltHome) /\ hasHome THEN RegularFile(AltHomePage)
        ELSE IF p \in {PathHomeHtmlHtml(h) : h \in HomeNames} /\ hasHomeHtmlHtml
        THEN RegularFile(HomeHtmlHtmlPage)
        ELSE IF p = PathExe /\ hasExe THEN RegularFile(ExeContent)
        ELSE IF p \in AssetPaths /\ hasAssets
        THEN RegularFile(AssetContent(CHOOSE ext \in SupportedExts : p = DocPath(TargetAsset(ext))))
        ELSE Absent]

WithErrors(disk, has404, has500) ==
    [disk EXCEPT ![ErrorsDir] = Dir,
                 ![Path404] = IF has404 THEN RegularFile(Custom404Page) ELSE Absent,
                 ![Path500] = IF has500 THEN RegularFile(Custom500Page) ELSE Absent]

DocumentRoots ==
    {DocumentRoot(h, hh, x, a) : h \in BOOLEAN, hh \in BOOLEAN, x \in BOOLEAN, a \in BOOLEAN}

InitialFileSystems ==
    {EmptyDisk} \cup DocumentRoots
        \cup {WithErrors(d, e4, e5) : d \in DocumentRoots, e4 \in BOOLEAN, e5 \in BOOLEAN}

\* the file systems of the runs with several connections
CoreDocumentRoot == DocumentRoot(TRUE, FALSE, FALSE, TRUE)
CoreFileSystems ==
    {EmptyDisk, CoreDocumentRoot, WithErrors(CoreDocumentRoot, FALSE, FALSE),
     WithErrors(CoreDocumentRoot, TRUE, FALSE), WithErrors(CoreDocumentRoot, TRUE, TRUE)}

\* the workloads: one connection with any input, or NumConns connections
\* with the inputs that tell the outcomes apart, or NumConns connections with
\* one input while somebody types at the console
Survey == [conns |-> 1, streams |-> Streams, console |-> FALSE]
Load == [conns |-> NumConns, streams |-> CoreStreams, console |-> FALSE]
Shutdown ==
    [conns |-> NumConns, streams |-> {Request(TargetAsset(ExtCss))}, console |-> TRUE]

\* what is typed at the console, a line at a time
Whitespace == {" ", "\n", "\r", "\t"}
InputLines ==
    {<<"s","t","o","p","\n">>, <<" ","s","t","o","p"," ","\r","\n">>,
     <<"c","o","n","f","i","g","-","r","e","l","o","a","d","\n">>, <<"\n">>}
Stop == <<"s","t","o","p">>

\* str::trim: without the white space at both ends
trim(s) ==
    LET inked == {i \in DOMAIN s : s[i] \notin Whitespace}
    IN  IF inked = {} THEN <<>> ELSE SubSeq(s, MinOf(inked), MaxOf(inked))

(***************************************************************************)
(* The server: main's accept loop, the pool's queue and workers, and the   *)
(* task each connection is handled by.                                     *)
(***************************************************************************)
VARIABLES
    fs,               \* the file system
    fsChanges,        \* number of changes other processes made to it
    CONF,             \* the configuration: home_name, threads
    mainPc,           \* main: "start", then "listening", "exited" after the exit
    ERR_PAGE,         \* the lazy cell of the 404 page
    SERVER_ERR_PAGE,  \* the lazy cell of the 500 page
    accepted,         \* number of connections the accept loop has taken
    queue,            \* the pool's queue of submitted tasks (connections)
    worker,           \* per worker: its position and its connection
    conn,             \* per connection: the socket and what happened on it
    clients,          \* the workload: how many connections arrive, with what
    once,             \* per lazy cell: the Once that guards its initialiser
    stdin,            \* the input thread: its position, and accepted when `stop` was read
    resp,             \* an HttpResponse in the hands of a caller of the library
    header,           \* what get_header last returned for it, None when stale
    calls,            \* the calls made on it since new
    settings,         \* settings.cfg: None when it cannot be opened, else its lines
    parsed            \* None until parse_config has run, then what it returned

vars == <<fs, fsChanges, CONF, mainPc, ERR_PAGE, SERVER_ERR_PAGE, accepted, queue,
          worker, conn, clients, once, stdin, resp, header, calls, settings, parsed>>

\* what the server's steps leave alone: the library caller's response and
\* the configuration file
aside == <<resp, header, calls, settings, parsed>>

\* a Once nobody has entered: the worker inside call_once (0: none), how often
\* the initialiser was started, and whether a second worker had to wait for it
OnceNew == [owner |-> 0, runs |-> 0, contended |-> FALSE]

Conns == 1..NumConns
Workers == 1..MaxThreads

NewConn ==
    [state |-> "pending",      \* pending, failed, queued, running, closed
     stream |-> <<>>,          \* what the client delivered
     result |-> None,          \* what handle_connection returned
     reads |-> 0,              \* requests read from the socket
     written |-> <<>>,         \* "response" or "error" per response written
     offered |-> <<>>,         \* the bytes the worker offered to the socket
     received |-> <<>>,        \* the bytes the socket took
     flushes |-> 0,            \* flush calls
     panicked |-> FALSE,       \* the task ended by a panic
     ownFault |-> FALSE,       \* at the panic, the initialiser could not have succeeded
     fsAt |-> 0,               \* fsChanges when the request was handled
     waited |-> FALSE,         \* every worker was busy when it was accepted
     sink |-> "none"]          \* how the socket took the write: full, short, error

IdleWorker == [pc |-> "idle", conn |-> 0]

\* the input thread in its loop: "reading", then "prompt" once `stop` was
\* read and finish_wait waits for a line, then "exited"
StdinNew == [pc |-> "reading", stopAt |-> 0]

\* a process whose threads go on after the exit
Running_Draining == TRUE

\* process::exit ends every thread of the process
Running == mainPc # "exited"

Init ==
    /\ \/ /\ clients = Survey
          /\ fs \in InitialFileSystems
          /\ CONF \in [home_name : HomeNames, threads : {1}]
       \/ /\ clients = Load
          /\ fs \in CoreFileSystems
          /\ CONF \in [home_name : {Home}, threads : 1..MaxThreads]
       \/ /\ clients = Shutdown
          /\ fs = CoreDocumentRoot
          /\ CONF \in [home_name : {Home}, threads : 1..MaxThreads]
    /\ fsChanges = 0
    /\ mainPc = "start"
    /\ ERR_PAGE = Uninit
    /\ SERVER_ERR_PAGE = Uninit
    /\ accepted = 0
    /\ queue = <<>>
    /\ worker = [w \in Workers |-> IdleWorker]
    /\ conn = [c \in Conns |-> NewConn]
    /\ once = [ERR_PAGE |-> OnceNew, SERVER_ERR_PAGE |-> OnceNew]
    /\ stdin = StdinNew
    /\ resp = HttpResponse_new("OneOne")
    /\ header = None
    /\ calls = <<>>
    /\ settings = None
    /\ parsed = None

\* main up to the accept loop: website/__errors__ is created only when
\* website cannot be listed; then the listener is bound and the pool built
Boot ==
    /\ mainPc = "start"
    /\ fs' = IF Exists(fs, Website) THEN fs
             ELSE [fs EXCEPT ![Website] = Dir, ![ErrorsDir] = Dir]
    /\ mainPc' = "listening"
    /\ UNCHANGED <<fsChanges, CONF, ERR_PAGE, SERVER_ERR_PAGE, accepted, queue, worker, conn, clients, once, stdin, aside>>

\* ThreadPool::execute: the task is queued
execute(q, c) == Append(q, c)

\* one turn of the accept loop with a connection: it is moved into a task
Accept ==
    /\ mainPc = "listening"
    /\ accepted < clients.conns
    /\ accepted' = accepted + 1
    /\ conn' = [conn EXCEPT ![accepted + 1] =
                  [@ EXCEPT !.state = "queued",
                            !.waited = \A w \in 1..CONF.threads : worker[w].pc # "idle"]]
    /\ queue' = execute(queue, accepted + 1)
    /\ UNCHANGED <<fs, fsChanges, CONF, mainPc, ERR_PAGE, SERVER_ERR_PAGE, worker, clients, once, stdin, aside>>

\* a variant that leaves the accept loop at the first error
AcceptError_Break ==
    /\ mainPc = "listening"
    /\ accepted < clients.conns
    /\ accepted' = accepted + 1
    /\ conn' = [conn EXCEPT ![accepted + 1].state = "failed"]
    /\ mainPc' = "stopped"
    /\ UNCHANGED <<fs, fsChanges, CONF, ERR_PAGE, SERVER_ERR_PAGE, queue, worker, clients, once, stdin, aside>>

\* one turn of the accept loop with an error: continue
AcceptError ==
    /\ mainPc = "listening"
    /\ accepted < clients.conns
    /\ accepted' = accepted + 1
    /\ conn' = [conn EXCEPT ![accepted + 1].state = "failed"]
    /\ UNCHANGED <<fs, fsChanges, CONF, mainPc, ERR_PAGE, SERVER_ERR_PAGE, queue, worker, clients, once, stdin, aside>>

\* an idle worker of the pool takes the oldest task
Take(w) ==
    /\ w <= CONF.threads
    /\ Running
    /\ worker[w].pc = "idle"
    /\ queue # <<>>
    /\ worker' = [worker EXCEPT ![w] = [pc |-> "handle", conn |-> Head(queue)]]
    /\ conn' = [conn EXCEPT ![Head(queue)].state = "running"]
    /\ queue' = Tail(queue)
    /\ UNCHANGED <<fs, fsChanges, CONF, mainPc, ERR_PAGE, SERVER_ERR_PAGE, accepted, clients, once, stdin, aside>>

\* the task calls handle_connection, which reads what the client delivered
Handle(w) ==
    /\ Running
    /\ worker[w].pc = "handle"
    /\ \E stream \in clients.streams :
          conn' = [conn EXCEPT ![worker[w].conn] =
                     [@ EXCEPT !.stream = stream,
                               !.result = Some(handle_connection(stream, fs, CONF.home_name)),
                               !.reads = @ + 1,
                               !.fsAt = fsChanges]]
    /\ worker' = [worker EXCEPT ![w].pc = "respond"]
    /\ UNCHANGED <<fs, fsChanges, CONF, mainPc, ERR_PAGE, SERVER_ERR_PAGE, accepted, queue, clients, once, stdin, aside>>

\* the lazy cell an error kind is answered from
NeededCell(e) ==
    CASE e = "SourceNotFound" -> "ERR_PAGE"
      [] e = "InternalServerErr" -> "SERVER_ERR_PAGE"
      [] OTHER -> "none"
Cell(name) == IF name = "ERR_PAGE" THEN ERR_PAGE ELSE SERVER_ERR_PAGE
Needs(w, name) ==
    /\ worker[w].conn # 0
    /\ IsSome(conn[worker[w].conn].result)
    /\ ~Unwrap(conn[worker[w].conn].result).ok
    /\ NeededCell(Unwrap(conn[worker[w].conn].result).err) = name

\* a Once that lets every caller in
call_once_Unguarded(o) == TRUE

\* Once::call_once lets one caller run the initialiser; the others wait
call_once(o) == o.owner = 0

\* Err(e), first use of the cell: the worker enters the Once of the cell and
\* starts its initialiser
InitPage(w) ==
    \E name \in {"ERR_PAGE", "SERVER_ERR_PAGE"} :
        /\ Running
        /\ worker[w].pc = "respond"
        /\ Needs(w, name)
        /\ Cell(name).state = "uninit"
        /\ call_once(once[name])
        /\ once' = [once EXCEPT ![name] = [@ EXCEPT !.owner = w, !.runs = @ + 1]]
        /\ worker' = [worker EXCEPT ![w].pc = "init"]
        /\ UNCHANGED <<fs, fsChanges, CONF, mainPc, ERR_PAGE, SERVER_ERR_PAGE, accepted,
                       queue, conn, clients, stdin, aside>>

\* the initialiser ends: the cell holds the page and the Once is done, or the
\* initialiser panicked, the Once is poisoned and the task unwinds
FinishInit(w) ==
    \E name \in {"ERR_PAGE", "SERVER_ERR_PAGE"} :
        LET c == worker[w].conn
            init == IF name = "ERR_PAGE" THEN ERR_PAGE_init(fs) ELSE SERVER_ERR_PAGE_init(fs)
            waiting == \E w2 \in Workers \ {w} : worker[w2].pc = "respond" /\ Needs(w2, name)
        IN  /\ Running
            /\ worker[w].pc = "init"
            /\ Needs(w, name)
            /\ ERR_PAGE' = IF name = "ERR_PAGE" THEN init.cell ELSE ERR_PAGE
            /\ SERVER_ERR_PAGE' = IF name = "SERVER_ERR_PAGE" THEN init.cell ELSE SERVER_ERR_PAGE
            /\ fs' = init.fs
            /\ once' = [once EXCEPT ![name] =
                           [@ EXCEPT !.owner = 0, !.contended = @ \/ waiting]]
            /\ IF init.cell.state = "poisoned"
               THEN /\ conn' = [conn EXCEPT ![c] =
                                  [@ EXCEPT !.state = "closed", !.panicked = TRUE,
                                            !.ownFault = TRUE]]
                    /\ worker' = [worker EXCEPT ![w] = IdleWorker]
               ELSE /\ conn' = conn
                    /\ worker' = [worker EXCEPT ![w].pc = "respond"]
            /\ UNCHANGED <<fsChanges, CONF, mainPc, accepted, queue, clients, stdin, aside>>

\* Ok(response) => response.send(&mut stream)
RespondOk(w) ==
    LET c == worker[w].conn
        r == Unwrap(Unwrap(conn[c].result).response)
    IN  /\ Running
        /\ worker[w].pc = "respond"
        /\ Unwrap(conn[c].result).ok
        /\ \E order \in IterationOrders(DOMAIN r.options), sink \in Sinks(Len(r.payload)) :
              conn' = [conn EXCEPT ![c] =
                         [@ EXCEPT !.written = Append(@, "response"),
                                   !.sink = sink.kind,
                                   !.offered = @ \o get_header(r, order) \o r.payload,
                                   !.received = @ \o send(r, order, sink)]]
        /\ worker' = [worker EXCEPT ![w].pc = "flush"]
        /\ UNCHANGED <<fs, fsChanges, CONF, mainPc, ERR_PAGE, SERVER_ERR_PAGE, accepted, queue, clients, once, stdin, aside>>

\* Err(e) => stream.write(e.get_html_err_msg()), once the cell the message
\* comes from is initialised
RespondErr(w) ==
    LET c == worker[w].conn
        msg == get_html_err_msg(Unwrap(conn[c].result).err, ERR_PAGE, SERVER_ERR_PAGE, fs)
    IN  /\ Running
        /\ worker[w].pc = "respond"
        /\ ~Unwrap(conn[c].result).ok
        /\ \A name \in {"ERR_PAGE", "SERVER_ERR_PAGE"} :
              Needs(w, name) => Cell(name).state # "uninit"
        /\ ~msg.panic
        /\ \E sink \in Sinks(Len(msg.bytes)) :
              conn' = [conn EXCEPT ![c] =
                         [@ EXCEPT !.written = Append(@, "error"),
                                   !.sink = sink.kind,
                                   !.offered = @ \o msg.bytes,
                                   !.received = @ \o write(msg.bytes, sink)]]
        /\ ERR_PAGE' = msg.ERR_PAGE
        /\ SERVER_ERR_PAGE' = msg.SERVER_ERR_PAGE
        /\ fs' = msg.fs
        /\ worker' = [worker EXCEPT ![w].pc = "flush"]
        /\ UNCHANGED <<fsChanges, CONF, mainPc, accepted, queue, clients, once, stdin, aside>>

\* Err(e) and get_html_err_msg panics on a cell whose initialiser panicked
\* before: the task unwinds, the stream is dropped unwritten and unflushed;
\* the worker goes back to the pool
RespondPanic(w) ==
    LET c == worker[w].conn
        e == Unwrap(conn[c].result).err
        msg == get_html_err_msg(e, ERR_PAGE, SERVER_ERR_PAGE, fs)
        init == IF e = "SourceNotFound" THEN ERR_PAGE_init(fs) ELSE SERVER_ERR_PAGE_init(fs)
    IN  /\ Running
        /\ worker[w].pc = "respond"
        /\ ~Unwrap(conn[c].result).ok
        /\ \A name \in {"ERR_PAGE", "SERVER_ERR_PAGE"} :
              Needs(w, name) => Cell(name).state # "uninit"
        /\ msg.panic
        /\ conn' = [conn EXCEPT ![c] =
                      [@ EXCEPT !.state = "closed", !.panicked = TRUE,
                                !.ownFault = (init.cell.state = "poisoned")]]
        /\ ERR_PAGE' = msg.ERR_PAGE
        /\ SERVER_ERR_PAGE' = msg.SERVER_ERR_PAGE
        /\ fs' = msg.fs
        /\ worker' = [worker EXCEPT ![w] = IdleWorker]
        /\ UNCHANGED <<fsChanges, CONF, mainPc, accepted, queue, clients, once, stdin, aside>>

\* a variant that keeps the connection alive: after the flush the worker
\* handles the next request on the same stream
Flush_KeepAlive(w) ==
    /\ Running
    /\ worker[w].pc = "flush"
    /\ conn' = [conn EXCEPT ![worker[w].conn].flushes = @ + 1]
    /\ worker' = [worker EXCEPT ![w].pc = "handle"]
    /\ UNCHANGED <<fs, fsChanges, CONF, mainPc, ERR_PAGE, SERVER_ERR_PAGE, accepted, queue, clients, once, stdin, aside>>

\* stream.flush(); the closure ends, the stream is dropped
Flush(w) ==
    /\ Running
    /\ worker[w].pc = "flush"
    /\ conn' = [conn EXCEPT ![worker[w].conn] =
                  [@ EXCEPT !.flushes = @ + 1, !.state = "closed"]]
    /\ worker' = [worker EXCEPT ![w] = IdleWorker]
    /\ UNCHANGED <<fs, fsChanges, CONF, mainPc, ERR_PAGE, SERVER_ERR_PAGE, accepted, queue, clients, once, stdin, aside>>

(***************************************************************************)
(* Other processes change the error pages on disk while the server runs.   *)
(***************************************************************************)
EnvDelete404 ==
    /\ mainPc = "listening"
    /\ fsChanges < MaxFsChanges
    /\ Readable(fs, Path404)
    /\ fs' = [fs EXCEPT ![Path404] = Absent]
    /\ fsChanges' = fsChanges + 1
    /\ UNCHANGED <<CONF, mainPc, ERR_PAGE, SERVER_ERR_PAGE, accepted, queue, worker, conn, clients, once, stdin, aside>>

EnvEdit404 ==
    /\ mainPc = "listening"
    /\ fsChanges < MaxFsChanges
    /\ Creatable(fs, Path404, ErrorsDir)
    /\ fs' = [fs EXCEPT ![Path404] = RegularFile(Edited404Page)]
    /\ fsChanges' = fsChanges + 1
    /\ UNCHANGED <<CONF, mainPc, ERR_PAGE, SERVER_ERR_PAGE, accepted, queue, worker, conn, clients, once, stdin, aside>>

EnvCreateErrorsDir ==
    /\ mainPc = "listening"
    /\ fsChanges < MaxFsChanges
    /\ Exists(fs, Website)
    /\ ~Exists(fs, ErrorsDir)
    /\ fs' = [fs EXCEPT ![ErrorsDir] = Dir]
    /\ fsChanges' = fsChanges + 1
    /\ UNCHANGED <<CONF, mainPc, ERR_PAGE, SERVER_ERR_PAGE, accepted, queue, worker, conn, clients, once, stdin, aside>>

\* the input thread reads a line: `stop` leaves the loop for finish_wait,
\* anything else changes nothing
ReadLine ==
    /\ clients.console
    /\ mainPc = "listening"
    /\ stdin.pc = "reading"
    /\ \E input \in InputLines :
          stdin' = IF trim(input) = Stop
                   THEN [pc |-> "prompt", stopAt |-> accepted]
                   ELSE stdin
    /\ UNCHANGED <<fs, fsChanges, CONF, mainPc, ERR_PAGE, SERVER_ERR_PAGE, accepted, queue,
                   worker, conn, clients, once, aside>>

\* finish_wait: after its prompt a line is read, whatever it holds, and the
\* process exits
finish_wait ==
    /\ mainPc = "listening"
    /\ stdin.pc = "prompt"
    /\ stdin' = [stdin EXCEPT !.pc = "exited"]
    /\ mainPc' = "exited"
    /\ UNCHANGED <<fs, fsChanges, CONF, ERR_PAGE, SERVER_ERR_PAGE, accepted, queue,
                   worker, conn, clients, once, aside>>

Next ==
    \/ Boot
    \/ ReadLine
    \/ finish_wait
    \/ Accept
    \/ AcceptError
    \/ \E w \in Workers : Take(w)
    \/ \E w \in Workers : Handle(w)
    \/ \E w \in Workers : InitPage(w)
    \/ \E w \in Workers : FinishInit(w)
    \/ \E w \in Workers : RespondOk(w)
    \/ \E w \in Workers : RespondErr(w)
    \/ \E w \in Workers : RespondPanic(w)
    \/ \E w \in Workers : Flush(w)
    \/ EnvDelete404
    \/ EnvEdit404
    \/ EnvCreateErrorsDir

Spec == Init /\ [][Next]_vars

TypeOK ==
    /\ accepted \in 0..NumConns
    /\ mainPc \in {"start", "listening", "exited"}
    /\ stdin.pc \in {"reading", "prompt", "exited"}
    /\ \A c \in Conns : conn[c].state \in {"pending", "failed", "queued", "running", "closed"}
    /\ \A w \in Workers :
          worker[w].pc \in {"idle", "handle", "init", "respond", "flush"}
    /\ \A name \in {"ERR_PAGE", "SERVER_ERR_PAGE"} : once[name].owner \in {0} \cup Workers

(***************************************************************************)
(* The library on its own (src/http-resources/src/lib.rs): a caller builds *)
(* a response with new, changes it by set_status, append_option and        *)
(* append_payload in any order, and asks for its header.  The server does  *)
(* not take part.                                                          *)
(***************************************************************************)
MaxCalls == 3

server == <<fs, fsChanges, CONF, mainPc, ERR_PAGE, SERVER_ERR_PAGE, accepted, queue,
            worker, conn, clients, once, stdin>>

ServerAtRest ==
    /\ clients = Survey
    /\ fs = EmptyDisk
    /\ CONF = [home_name |-> Home, threads |-> 1]
    /\ fsChanges = 0
    /\ mainPc = "start"
    /\ ERR_PAGE = Uninit
    /\ SERVER_ERR_PAGE = Uninit
    /\ accepted = 0
    /\ queue = <<>>
    /\ worker = [w \in Workers |-> IdleWorker]
    /\ conn = [c \in Conns |-> NewConn]
    /\ once = [ERR_PAGE |-> OnceNew, SERVER_ERR_PAGE |-> OnceNew]
    /\ stdin = StdinNew

HttpProtocols == {"ZeroNine", "One", "OneOne", "Two"}
HttpResponseStatusCode == {"OK", "NotFound", "InternalServerError"}
HttpResponseOptions == {"ContentType", "ContentLength"}
OptionValues == {TextCss, TextHtml, <<>>}
Payloads == {<<>>, <<"x">>}

InitResponse ==
    /\ ServerAtRest
    /\ resp \in {HttpResponse_new(p) : p \in HttpProtocols}
    /\ header = None
    /\ calls = <<>>
    /\ settings = None
    /\ parsed = None

SetStatus ==
    /\ Len(calls) < MaxCalls
    /\ \E new_status \in HttpResponseStatusCode :
        /\ resp' = set_status(resp, new_status)
        /\ calls' = Append(calls, [op |-> "set_status", status |-> new_status])
    /\ header' = None
    /\ UNCHANGED <<server, settings, parsed>>

AppendOption ==
    /\ Len(calls) < MaxCalls
    /\ \E option \in HttpResponseOptions, value \in OptionValues :
        /\ resp' = append_option(resp, option, value)
        /\ calls' = Append(calls, [op |-> "append_option", option |-> option,
                                   value |-> value])
    /\ header' = None
    /\ UNCHANGED <<server, settings, parsed>>

AppendPayload ==
    /\ Len(calls) < MaxCalls
    /\ \E payload \in Payloads :
        /\ resp' = append_payload(resp, payload)
        /\ calls' = Append(calls, [op |-> "append_payload", payload |-> payload])
    /\ header' = None
    /\ UNCHANGED <<server, settings, parsed>>

GetHeader ==
    /\ \E order \in IterationOrders(DOMAIN resp.options) :
        header' = Some(get_header(resp, order))
    /\ UNCHANGED <<server, resp, calls, settings, parsed>>

NextResponse ==
    \/ SetStatus
    \/ AppendOption
    \/ AppendPayload
    \/ GetHeader

SpecResponse == InitResponse /\ [][NextResponse]_vars

(***************************************************************************)
(* The configuration on its own: parse_config (src/src/main.rs) as a       *)
(* function of settings.cfg.  The lines are what BufRead::lines yields,    *)
(* without their line ends; suppress_warning only decides what is printed  *)
(* and is left out.                                                        *)
(***************************************************************************)
MaxLines == 2
DefaultThreads == 20

KeyNumThreads == <<"n","u","m","-","t","h","r","e","a","d","s">>

\* lines of a settings.cfg: num-threads with a number, with zero, padded,
\* signed, not a number, negative, quoted, empty, with two `=`, commented
\* out; another key; a blank line
ConfigLines ==
    {<<"n","u","m","-","t","h","r","e","a","d","s"," ","="," ","4">>,
     <<"n","u","m","-","t","h","r","e","a","d","s"," ","="," ","0">>,
     <<" "," ","n","u","m","-","t","h","r","e","a","d","s","=","0","0","7"," ">>,
     <<"n","u","m","-","t","h","r","e","a","d","s"," ","="," ","+","3">>,
     <<"n","u","m","-","t","h","r","e","a","d","s"," ","="," ","m","a","n","y">>,
     <<"n","u","m","-","t","h","r","e","a","d","s"," ","="," ","-","1">>,
     <<"n","u","m","-","t","h","r","e","a","d","s"," ","="," ","\"","8","\"">>,
     <<"n","u","m","-","t","h","r","e","a","d","s"," ","=">>,
     <<"n","u","m","-","t","h","r","e","a","d","s"," ","="," ","2"," ","="," ","3">>,
     <<"#"," ","n","u","m","-","t","h","r","e","a","d","s"," ","="," ","0">>,
     <<"h","o","m","e","-","n","a","m","e"," ","="," ","\"","i","d","x","\"">>,
     <<" ">>}

RECURSIVE FilesOf(_)
FilesOf(n) ==
    IF n = 0 THEN {<<>>}
    ELSE FilesOf(n - 1) \cup {Append(f, l) : f \in {g \in FilesOf(n - 1) : Len(g) = n - 1},
                                            l \in ConfigLines}
\* settings.cfg: missing, or any file of up to MaxLines of these lines
SettingsFiles == {None} \cup {Some(f) : f \in FilesOf(MaxLines)}

\* str::trim_matches(ch): without the run of ch at both ends
trim_matches(s, ch) ==
    LET kept == {i \in DOMAIN s : s[i] # ch}
    IN  IF kept = {} THEN <<>> ELSE SubSeq(s, MinOf(kept), MaxOf(kept))

\* usize::from_str: an optional `+`, then one or more decimal digits and
\* nothing else; the inputs here stay far below usize::MAX
usize_from_str(s) ==
    LET digits == IF s # <<>> /\ Head(s) = "+" THEN Tail(s) ELSE s
    IN  IF digits # <<>> /\ \A i \in DOMAIN digits : digits[i] \in DigitChars
        THEN Some(DecimalValue(digits))
        ELSE None

unwrap_or(option, default) == IF IsSome(option) THEN Unwrap(option) ELSE default

DefaultConfig ==
    [ip |-> <<"1","2","7",".","0",".","0",".","1">>, port |-> <<"8","0","8","0">>,
     home_name |-> Home, ssl |-> <<>>, threads |-> DefaultThreads]

\* "num-threads" => out.threads = usize::from_str(value).unwrap_or(20)
SetThreads(out, value) ==
    [out EXCEPT !.threads = unwrap_or(usize_from_str(value), DefaultThreads)]

\* the body of the loop over the lines, for one line
ParseLine(out, line) ==
    IF trim(line) = <<>> \/ Head(trim(line)) = "#" THEN out
    ELSE LET pieces == Split(line, "=")
             parts == [i \in DOMAIN pieces |-> trim(pieces[i])]
         IN  IF Len(parts) # 2 THEN out
             ELSE LET key == parts[1]
                      value == parts[2]
                  IN  CASE key = <<"i","p">> ->
                             [out EXCEPT !.ip = trim_matches(value, "\"")]
                        [] key = <<"p","o","r","t">> ->
                             [out EXCEPT !.port = trim_matches(value, "\"")]
                        [] key = KeyNumThreads -> SetThreads(out, value)
                        [] key = <<"h","o","m","e","-","n","a","m","e">> ->
                             [out EXCEPT !.home_name = trim_matches(value, "\"")]
                        [] key = <<"s","s","l","-","c","e","r","t">> ->
                             [out EXCEPT !.ssl = trim_matches(value, "\"")]
                        [] OTHER -> out

RECURSIVE ParseLines(_, _)
ParseLines(out, lines) ==
    IF lines = <<>> THEN out ELSE ParseLines(ParseLine(out, Head(lines)), Tail(lines))

\* None when settings.cfg cannot be opened, else the defaults as changed by
\* the lines in their order
parse_config(file) ==
    IF ~IsSome(file) THEN None ELSE Some(ParseLines(DefaultConfig, Unwrap(file)))

InitConfig ==
    /\ ServerAtRest
    /\ resp = HttpResponse_new("OneOne")
    /\ header = None
    /\ calls = <<>>
    /\ settings \in SettingsFiles
    /\ parsed = None

\* CONF is dereferenced for the first time: parse_config runs
ParseConfig ==
    /\ parsed = None
    /\ parsed' = Some(parse_config(settings))
    /\ UNCHANGED <<server, resp, header, calls, settings>>

SpecConfig == InitConfig /\ [][ParseConfig]_vars

(***************************************************************************)
(* Vocabulary of the properties.                                           *)
(***************************************************************************)
Handled(c) == IsSome(conn[c].result)
Outcome(c) == Unwrap(conn[c].result)
Target(c) == Unwrap(RequestPath(conn[c].stream))
Asked(c, target) == Handled(c) /\ conn[c].stream = Request(target)
Returned(c, e) == Handled(c) /\ ~Outcome(c).ok /\ Outcome(c).err = e
ReturnedResponse(c) == Handled(c) /\ Outcome(c).ok
Response(c) == Unwrap(Outcome(c).response)
SameOutcome(c1, c2) ==
    /\ Outcome(c1).ok = Outcome(c2).ok
    /\ Outcome(c1).err = Outcome(c2).err
    /\ Outcome(c1).response = Outcome(c2).response

IsPrefix(s, t) == Len(s) <= Len(t) /\ s = SubSeq(t, 1, Len(s))
Contains(hay, needle) ==
    \E i \in 0..(Len(hay) - Len(needle)) : SubSeq(hay, i + 1, i + Len(needle)) = needle

\* s is the decimal rendering of n
IsDecimalOf(s, n) ==
    /\ Len(s) > 0
    /\ \A i \in 1..Len(s) : s[i] \in DigitChars
    /\ Len(s) > 1 => s[1] # "0"
    /\ DecimalValue(s) = n

\* the extension table of the specification
ContentTypeTable(ext) ==
    CASE ext = ExtHtml -> TextHtml
      [] ext = ExtCss -> TextCss
      [] ext = ExtPng -> ImagePng
      [] ext = ExtIco -> ImageXIcon
      [] ext = ExtJs -> ApplicationJavascript
      [] ext = ExtWasm -> ApplicationWasm

(***************************************************************************)
(* C1: a request for / and a request for /<home_name>.html have the same   *)
(* outcome: the same response, or the same error kind.  (The document root *)
(* does not change between the two requests: only the error pages do.)     *)
(***************************************************************************)
C1_RootSameAsHomeHtml ==
    \A c1, c2 \in Conns :
        Asked(c1, TargetRoot) /\ Asked(c2, TargetHomeHtml(CONF.home_name))
            => SameOutcome(c1, c2)

(***************************************************************************)
(* C2: for each supported extension, a request for /a.<ext> whose file     *)
(* website/a.<ext> is readable returns a response with status 200, the     *)
(* content type of the table and the file's bytes as payload.              *)
(***************************************************************************)
C2_ExistingFileServed ==
    \A c \in Conns : \A ext \in SupportedExts :
        Asked(c, TargetAsset(ext)) /\ Readable(fs, DocPath(TargetAsset(ext)))
            => /\ ReturnedResponse(c)
               /\ Response(c).status = "OK"
               /\ "ContentType" \in DOMAIN Response(c).options
               /\ Response(c).options["ContentType"] = ContentTypeTable(ext)
               /\ Response(c).payload = fs[DocPath(TargetAsset(ext))].data

(***************************************************************************)
(* C3: every response handle_connection returns has a Content-Length       *)
(* option that is the decimal rendering of the length of its payload, and  *)
(* the header bytes offered to the socket carry that line.                 *)
(***************************************************************************)
ContentLengthLine(n_str) ==
    SEPARATOR \o HttpResponseOptions_get_name("ContentLength") \o ColonSpace \o n_str \o SEPARATOR

Occurrences(hay, needle) ==
    Cardinality({i \in 0..(Len(hay) - Len(needle)) :
                    SubSeq(hay, i + 1, i + Len(needle)) = needle})
HeaderOffered(c) ==
    SubSeq(conn[c].offered, 1, Len(conn[c].offered) - Len(Response(c).payload))

C3_ContentLengthIsPayloadLength ==
    \A c \in Conns :
        ReturnedResponse(c)
            => /\ "ContentLength" \in DOMAIN Response(c).options
               /\ IsDecimalOf(Response(c).options["ContentLength"], Len(Response(c).payload))
               /\ conn[c].written # <<>> =>
                    /\ Contains(HeaderOffered(c),
                                ContentLengthLine(Response(c).options["ContentLength"]))
                    /\ Occurrences(HeaderOffered(c),
                                   HttpResponseOptions_get_name("ContentLength")) = 1

C3_Witness ==
    \E c \in Conns :
        /\ ReturnedResponse(c)
        /\ conn[c].written = <<"response">>
        /\ conn[c].state = "closed"
        /\ Len(Response(c).payload) >= 10

(***************************************************************************)
(* C4: a request whose target has an extension outside the supported ones  *)
(* returns InternalServerErr, never SourceNotFound or a response, whether  *)
(* the file exists or not, and no file was opened for it.                  *)
(***************************************************************************)
UnsupportedExtension(target) ==
    IsSome(Extension(target)) /\ Unwrap(Extension(target)) \notin SupportedExts

C4_UnsupportedExtensionIsInternalError ==
    \A c \in Conns :
        Handled(c) /\ IsSome(RequestPath(conn[c].stream)) /\ UnsupportedExtension(Target(c))
            => /\ Returned(c, "InternalServerErr")
               /\ Outcome(c).opened = <<>>

C4_Witness ==
    /\ \E c \in Conns :
          /\ Asked(c, TargetExe)
          /\ Readable(fs, PathExe)
          /\ Returned(c, "InternalServerErr")
          /\ conn[c].state = "closed"

(***************************************************************************)
(* C5: the bytes of every NotFound answer are the bytes cached at the      *)
(* first NotFound occurrence: the cache is filled by a NotFound occurrence *)
(* only, and every NotFound answer written so far equals the cached value, *)
(* whatever happened to 404.html since.                                    *)
(***************************************************************************)
AnsweredNotFound(c) == Returned(c, "SourceNotFound") /\ conn[c].written # <<>>

C5_NotFoundBytesCachedOnce ==
    /\ \A c \in Conns :
          AnsweredNotFound(c)
              => ERR_PAGE.state = "ready" /\ conn[c].offered = ERR_PAGE.value
    /\ ERR_PAGE.state # "uninit" \/ once["ERR_PAGE"].runs > 0
          => \E c \in Conns : Returned(c, "SourceNotFound")

\* 404.html was deleted after the page was cached (a missing file would have
\* been written anew by the initialiser), and a request handled after the
\* deletion was answered with the bytes of the first answer
C5_Witness ==
    \E c1, c2 \in Conns :
        /\ c1 # c2
        /\ AnsweredNotFound(c1) /\ AnsweredNotFound(c2)
        /\ conn[c1].fsAt = 0 /\ conn[c2].fsAt > 0
        /\ ~Readable(fs, Path404)
        /\ conn[c1].offered = conn[c2].offered
        /\ Contains(conn[c2].offered, Custom404Page)

(***************************************************************************)
(* C6: a stream that ends before any line, whose first line is empty or    *)
(* unreadable, or whose first line has no second token is classified       *)
(* TCPReadFailed, and what the worker writes for it is the literal         *)
(* HTTP/1.1 400 BAD REQUEST and nothing else: no header, no body.          *)
(***************************************************************************)
NoTargetStreams == {<<>>, <<ReadError>>, <<Line(<<>>)>>, <<Line(GET)>>}
BadRequestLiteral ==
    <<"H","T","T","P","/","1",".","1">> \o <<" ">> \o <<"4","0","0">> \o <<" ">>
        \o <<"B","A","D">> \o <<" ">> \o <<"R","E","Q","U","E","S","T">>

C6_NoTargetIsBadRequest ==
    \A c \in Conns :
        Handled(c) /\ conn[c].stream \in NoTargetStreams
            => /\ Returned(c, "TCPReadFailed")
               /\ conn[c].written # <<>> =>
                    /\ conn[c].written = <<"error">>
                    /\ conn[c].offered = BadRequestLiteral
                    /\ IsPrefix(conn[c].received, BadRequestLiteral)

C6_Witness ==
    \E c \in Conns :
        /\ conn[c].stream = <<Line(GET)>>
        /\ Returned(c, "TCPReadFailed")
        /\ conn[c].state = "closed"
        /\ conn[c].received = BadRequestLiteral

(***************************************************************************)
(* C7: whatever the file system holds, a task that needs the NotFound or   *)
(* the InternalError bytes gets them without a fault and writes them.      *)
(***************************************************************************)
C7_ErrorPagesNeverFault ==
    \A c \in Conns :
        (Returned(c, "SourceNotFound") \/ Returned(c, "InternalServerErr"))
            /\ conn[c].state = "closed"
            => ~conn[c].panicked /\ conn[c].written = <<"error">>

(***************************************************************************)
(* C8: on each connection one request is read and at most one response is  *)
(* written: the response or the error bytes, never both, never twice; then *)
(* one flush, after which nothing is read from or written to the socket.   *)
(* No two workers hold the same connection.                                *)
(***************************************************************************)
InQueue(c) == \E i \in 1..Len(queue) : queue[i] = c
HeldBy(c) == {w \in Workers : worker[w].conn = c}

C8_Inv ==
    \A c \in Conns :
        /\ conn[c].reads <= 1
        /\ Len(conn[c].written) <= 1
        /\ conn[c].flushes <= 1
        /\ Cardinality(HeldBy(c)) <= 1
        /\ conn[c].written # <<>> =>
              /\ conn[c].reads = 1
              /\ conn[c].written = <<IF Outcome(c).ok THEN "response" ELSE "error">>
        /\ conn[c].flushes = 1 => Len(conn[c].written) = 1 /\ conn[c].state = "closed"
        /\ conn[c].state = "closed" => HeldBy(c) = {} /\ ~InQueue(c) /\ conn[c].reads = 1

C8_Step ==
    \A c \in Conns :
        /\ conn[c].state = "closed" => conn'[c] = conn[c]
        /\ conn[c].written # <<>> =>
              /\ conn'[c].written = conn[c].written
              /\ conn'[c].received = conn[c].received
              /\ conn'[c].reads = conn[c].reads

C8_OneRequestOneResponse == [](C8_Inv) /\ [][C8_Step]_vars

\* two workers at once: the connection accepted first has its response
\* written and is not yet flushed, while the one accepted after it is closed
\* after its error bytes and its flush
C8_Witness ==
    \E c1, c2 \in Conns :
        /\ c1 < c2
        /\ conn[c1].state = "running" /\ conn[c1].written = <<"response">>
        /\ conn[c1].flushes = 0
        /\ conn[c2].state = "closed" /\ conn[c2].written = <<"error">>
        /\ conn[c2].flushes = 1 /\ conn[c2].reads = 1

(***************************************************************************)
(* C9: a connection accepted while every worker was busy is queued, and    *)
(* its task ends with the response or the error bytes written and flushed. *)
(***************************************************************************)
C9_QueuedConnectionsComplete ==
    \A c \in Conns :
        conn[c].waited
            => /\ conn[c].state \in {"queued", "running", "closed"}
               /\ conn[c].state = "closed" =>
                    conn[c].flushes = 1 /\ Len(conn[c].written) = 1

(***************************************************************************)
(* C10: a panic in one task does not make the handling of another          *)
(* connection fault: a task faults only when its own run of the            *)
(* initialiser could not have succeeded on the file system as it is.       *)
(***************************************************************************)
C10_FaultsAreIsolated ==
    \A c \in Conns : conn[c].panicked => conn[c].ownFault

(***************************************************************************)
(* C11: when the socket reports no write error, send delivers the bytes of *)
(* get_header followed by all the bytes of the payload, also when the      *)
(* socket takes fewer bytes than offered in one write call.                *)
(***************************************************************************)
C11_SendDeliversHeaderAndPayload ==
    \A c \in Conns :
        conn[c].written = <<"response">> /\ conn[c].sink # "error"
            => \E order \in IterationOrders(DOMAIN Response(c).options) :
                  conn[c].received = get_header(Response(c), order) \o Response(c).payload

(***************************************************************************)
(* C12: after any calls of set_status, append_option and append_payload,   *)
(* get_header is the status line `<protocol> <status>\r\n`, then exactly   *)
(* one line `<Header-Name>: <value>\r\n` per distinct option key, carrying *)
(* the value set last for that key, then one empty line `\r\n`; for no,    *)
(* one and two options.                                                    *)
(***************************************************************************)
OptionCalls(k) ==
    {i \in DOMAIN calls : calls[i].op = "append_option" /\ calls[i].option = k}
StatusCalls == {i \in DOMAIN calls : calls[i].op = "set_status"}
KeysSet == {k \in HttpResponseOptions : OptionCalls(k) # {}}
LastValue(k) == calls[MaxOf(OptionCalls(k))].value
LastStatus == IF StatusCalls = {} THEN "OK" ELSE calls[MaxOf(StatusCalls)].status
ExpectedStatusLine ==
    HttpProtocols_get_name(resp.protocol) \o <<SPACE>>
        \o HttpResponseStatusCode_get_header(LastStatus) \o SEPARATOR
ExpectedOptionLine(k) ==
    HttpResponseOptions_get_name(k) \o ColonSpace \o LastValue(k) \o SEPARATOR
RECURSIVE TotalLen(_)
TotalLen(keys) ==
    IF keys = {} THEN 0
    ELSE LET k == CHOOSE x \in keys : TRUE
         IN  Len(ExpectedOptionLine(k)) + TotalLen(keys \ {k})

C12_HeaderShape ==
    IsSome(header) =>
        LET h == Unwrap(header)
        IN  /\ IsPrefix(ExpectedStatusLine, h)
            /\ \A k \in KeysSet :
                 /\ Occurrences(h, HttpResponseOptions_get_name(k) \o ColonSpace) = 1
                 /\ Contains(h, SEPARATOR \o ExpectedOptionLine(k))
            /\ Occurrences(h, SEPARATOR) = Cardinality(KeysSet) + 2
            /\ IsPrefix(SEPARATOR \o SEPARATOR, SubSeq(h, Len(h) - 3, Len(h)))
            /\ Len(h) = Len(ExpectedStatusLine) + TotalLen(KeysSet) + Len(SEPARATOR)

\* both options are set, one of them twice with different values
C12_Witness ==
    /\ IsSome(header)
    /\ Cardinality(KeysSet) = 2
    /\ \E k \in KeysSet : \E i \in OptionCalls(k) :
          i < MaxOf(OptionCalls(k)) /\ calls[i].value # LastValue(k)

(***************************************************************************)
(* C13: the request is read line by line up to the first empty line or the *)
(* end of the stream, and a read failure on any of those lines, the        *)
(* request line or a header line, makes the outcome TCPReadFailed.         *)
(***************************************************************************)
HeaderBlock(stream) ==
    LET ends == {i \in DOMAIN stream : stream[i].ok /\ stream[i].line = <<>>}
    IN  IF ends = {} THEN stream ELSE SubSeq(stream, 1, MinOf(ends))

C13_ReadFailureIsReadFailed ==
    \A c \in Conns :
        Handled(c) /\ (\E i \in DOMAIN HeaderBlock(conn[c].stream) :
                          ~HeaderBlock(conn[c].stream)[i].ok)
            => Returned(c, "TCPReadFailed")

(***************************************************************************)
(* C14: for a request with a target and a supported or absent extension,   *)
(* the first failing step decides: when the open of `website<path>` fails  *)
(* the outcome is SourceNotFound; when the open succeeds and the read      *)
(* fails it is InternalServerErr; otherwise it is a response with the      *)
(* file's bytes.  Every request ends in exactly one of a response,         *)
(* TCPReadFailed, SourceNotFound and InternalServerErr.                    *)
(***************************************************************************)
ResolvedFile(c) == Website \o Route(Target(c), CONF.home_name).path

C14_FirstFailingStepDecides ==
    \A c \in Conns :
        Handled(c) =>
            /\ \/ Outcome(c).ok /\ IsSome(Outcome(c).response) /\ Outcome(c).err = ""
               \/ /\ ~Outcome(c).ok /\ Outcome(c).response = None
                  /\ Outcome(c).err \in {"TCPReadFailed", "SourceNotFound", "InternalServerErr"}
            /\ IsSome(RequestPath(conn[c].stream)) /\ ~UnsupportedExtension(Target(c))
                 => /\ ~Exists(fs, ResolvedFile(c)) => Returned(c, "SourceNotFound")
                    /\ Exists(fs, ResolvedFile(c)) /\ ~Readable(fs, ResolvedFile(c))
                         => Returned(c, "InternalServerErr")
                    /\ Readable(fs, ResolvedFile(c))
                         => /\ ReturnedResponse(c)
                            /\ Response(c).payload = fs[ResolvedFile(c)].data

\* the open succeeded and the read failed: the target is a directory
C14_Witness ==
    \E c \in Conns :
        /\ Asked(c, TargetDirectory)
        /\ Exists(fs, ResolvedFile(c)) /\ ~Readable(fs, ResolvedFile(c))
        /\ Returned(c, "InternalServerErr")
        /\ Outcome(c).opened = <<ResolvedFile(c)>>
        /\ conn[c].state = "closed"

(***************************************************************************)
(* C15: when several workers need the page of the same error kind for the  *)
(* first time at once, the page is computed at most once, every worker     *)
(* answers with the same bytes, and no worker answers with a value that is *)
(* not completely initialised.                                             *)
(***************************************************************************)
AnsweredFrom(c, name) ==
    /\ Handled(c) /\ ~Outcome(c).ok
    /\ NeededCell(Outcome(c).err) = name
    /\ conn[c].written = <<"error">>

C15_PageComputedOnce ==
    \A name \in {"ERR_PAGE", "SERVER_ERR_PAGE"} :
        /\ once[name].runs <= 1
        /\ Cardinality({w \in Workers : worker[w].pc = "init" /\ Needs(w, name)}) <= 1
        /\ \A c \in Conns :
              AnsweredFrom(c, name)
                  => /\ Cell(name).state = "ready"
                     /\ once[name].owner = 0
                     /\ conn[c].offered = Cell(name).value
        /\ \A c1, c2 \in Conns :
              AnsweredFrom(c1, name) /\ AnsweredFrom(c2, name)
                  => conn[c1].offered = conn[c2].offered

\* a second worker waited while the first ran the initialiser of the 404
\* page, and both connections were answered
C15_Witness ==
    /\ once["ERR_PAGE"].contended
    /\ \E c1, c2 \in Conns :
          /\ c1 # c2
          /\ AnsweredFrom(c1, "ERR_PAGE") /\ conn[c1].state = "closed"
          /\ AnsweredFrom(c2, "ERR_PAGE") /\ conn[c2].state = "closed"

(***************************************************************************)
(* C16: when handle_connection returns an error kind and the socket        *)
(* reports no write error, the client receives exactly the complete bytes  *)
(* of get_html_err_msg for that kind and nothing else, also when the       *)
(* socket takes fewer bytes than offered in one write call.                *)
(***************************************************************************)
C16_ErrorBytesDelivered ==
    \A c \in Conns :
        /\ Handled(c) /\ ~Outcome(c).ok
        /\ conn[c].written = <<"error">>
        /\ conn[c].sink # "error"
        => conn[c].received =
              IF Outcome(c).err = "TCPReadFailed" THEN BadRequestBytes
              ELSE Cell(NeededCell(Outcome(c).err)).value

(***************************************************************************)
(* C17: an accept error on one incoming connection is skipped: no task is  *)
(* submitted for it, the accept loop goes on, and every connection         *)
(* accepted after it is still submitted to the pool.                       *)
(***************************************************************************)
C17_Inv ==
    \A c \in Conns :
        /\ conn[c].state = "failed"
              => /\ c <= accepted
                 /\ ~InQueue(c) /\ HeldBy(c) = {}
                 /\ ~Handled(c) /\ conn[c].reads = 0 /\ conn[c].written = <<>>
        /\ c <= accepted /\ conn[c].state # "failed"
              => /\ conn[c].state \in {"queued", "running", "closed"}
                 /\ conn[c].state = "queued" <=> InQueue(c)
                 /\ conn[c].state = "running" <=> HeldBy(c) # {}
        /\ c > accepted => conn[c].state = "pending"

C17_Step ==
    \A c \in Conns :
        /\ conn[c].state = "pending" /\ conn'[c].state = "failed"
              => /\ mainPc = "listening" /\ mainPc' = "listening"
                 /\ accepted' = c
                 /\ queue' = queue /\ worker' = worker
        /\ conn[c].state = "failed" => conn'[c] = conn[c]

C17_AcceptErrorIsSkipped == [](C17_Inv) /\ [][C17_Step]_vars

\* the first connection failed at accept; the one after it was accepted,
\* handled, answered and flushed
C17_Witness ==
    \E c1, c2 \in Conns :
        /\ c1 < c2
        /\ conn[c1].state = "failed"
        /\ conn[c2].state = "closed" /\ Len(conn[c2].written) = 1 /\ conn[c2].flushes = 1

(***************************************************************************)
(* C18: once `stop` has been read from stdin the shutdown is immediate:    *)
(* the process exits without draining the tasks in flight, and no          *)
(* connection is accepted or dispatched after `stop` has been read.        *)
(***************************************************************************)
C18_StopIsImmediate ==
    stdin.pc # "reading" => accepted = stdin.stopAt

\* C18 as the code has it: after `stop` the input thread waits in finish_wait
\* for one more line; until it is read the server goes on accepting and
\* dispatching; when it is read the process exits at once, whatever is
\* queued or running, and nothing happens after the exit.
C18_Inv ==
    /\ mainPc = "exited" <=> stdin.pc = "exited"
    /\ stdin.pc = "reading" => stdin.stopAt = 0

C18_Step ==
    /\ mainPc # "exited" /\ mainPc' = "exited"
          => /\ stdin.pc = "prompt"
             /\ <<accepted, queue, worker, conn>>' = <<accepted, queue, worker, conn>>
    /\ stdin.pc = "reading" /\ stdin'.pc # "reading"
          => /\ stdin'.pc = "prompt" /\ mainPc' = mainPc
             /\ stdin'.stopAt = accepted
    /\ mainPc = "exited" => vars' = vars

C18_ExitAfterPrompt == [](C18_Inv) /\ [][C18_Step]_vars

\* the process has exited after a connection was accepted between `stop` and
\* the line that answered the prompt, with a task queued or running
C18_Witness ==
    /\ mainPc = "exited"
    /\ accepted > stdin.stopAt
    /\ \E c \in Conns : conn[c].state \in {"queued", "running"}

(***************************************************************************)
(* C19: the two error pages are independent: the bytes of a 404 answer do  *)
(* not depend on whether a 500 answer was computed before; computing the   *)
(* 500 page, also by its fallback when 500.html is missing, leaves         *)
(* website/__errors__/404.html as it was; and the fallback body of the 500 *)
(* page names status 500.                                                  *)
(***************************************************************************)
C19_ErrorPagesIndependent ==
    /\ fs[Path404] # RegularFile(Default500File)
    /\ ERR_PAGE.state = "ready" => ~Contains(ERR_PAGE.value, Default500File)
    /\ SERVER_ERR_PAGE.state = "ready" => ~Contains(SERVER_ERR_PAGE.value, FallbackPage)

(***************************************************************************)
(* C20: for every settings.cfg that parse_config accepts, Config.threads   *)
(* is at least 1: without a `num-threads` line, or with one that does not  *)
(* parse, it is 20, and no accepted value leaves the pool without workers. *)
(***************************************************************************)
Accepted == IsSome(parsed) /\ IsSome(Unwrap(parsed))
Config == Unwrap(Unwrap(parsed))
MentionsThreads ==
    \E i \in DOMAIN Unwrap(settings) : Contains(Unwrap(settings)[i], KeyNumThreads)

C20_ThreadsPositive ==
    Accepted =>
        /\ Config.threads >= 1
        /\ ~MentionsThreads => Config.threads = DefaultThreads

====
